---- MODULE Spec2Model ----
(***************************************************************************)
(* Model of surya/benchmark/metrics.py: box matching, coverage,            *)
(* precision/recall over a thread pool, mean coverage and rank accuracy.   *)
(*                                                                         *)
(* Numbers.  Box coordinates are multiples of 1/Scale pixel and are held   *)
(* as integers in units of 1/Scale, so an area is held in units of         *)
(* 1/Scale^2.  A float result (an IoU, a coverage, a mean) is held as an   *)
(* exact fraction <<numerator, denominator>> with denominator > 0.         *)
(* Python sequences are 0-based; the model keeps the 0-based indices in    *)
(* the values the code produces and reads element i as s[i + 1].           *)
(***************************************************************************)
EXTENDS Integers, Sequences, FiniteSets

VARIABLES
    pc,                 \* position in the function being run
    preds,              \* argument preds
    references,         \* argument references
    \* match_boxes / penalized_iou_score
    walked,             \* entries of sorted_indices already visited by the loop
    assigned_actual,
    assigned_pred,
    matches,
    \* calculate_coverage / calculate_coverage_fast
    coverage_func,      \* which variant is called
    box,
    other_boxes,
    penalize_double,
    covered_pixels,
    double_coverage,
    double_coverage_penalty,
    \* precision_recall
    workers,
    work_queue,         \* work items submitted and not yet taken by a worker
    running,            \* work items a worker thread is executing
    futures,            \* results of completed work items
    submitted,          \* number of work items ever submitted
    \* mean_coverage
    coverages,
    \* rank_accuracy
    pairs,
    correct,
    \* the value returned (or the exception raised)
    ret

vars == <<pc, preds, references, walked, assigned_actual, assigned_pred, matches,
          coverage_func, box, other_boxes, penalize_double, covered_pixels,
          double_coverage, double_coverage_penalty, workers, work_queue, running,
          futures, submitted, coverages, pairs, correct, ret>>

matchVars == <<walked, assigned_actual, assigned_pred, matches>>
covVars   == <<coverage_func, box, other_boxes, covered_pixels, double_coverage,
               double_coverage_penalty>>
poolVars  == <<workers, work_queue, running, futures, submitted>>
rankVars  == <<pairs, correct>>

\* ------------------------------------------------------------------ bounds
Scale    == 2      \* coordinate resolution: coordinates are multiples of 1/Scale
MaxBoxes == 2      \* longest box list
MaxWorkers == 2    \* widest worker pool
MaxItems == 3      \* longest score list of rank_accuracy
MaxScore == 3      \* scores are 1..MaxScore

\* ------------------------------------------------------------- arithmetic
Max(a, b) == IF a >= b THEN a ELSE b
Min(a, b) == IF a <= b THEN a ELSE b

\* fractions <<n, d>>, d > 0
RatLT(a, b)  == a[1] * b[2] < b[1] * a[2]
RatLE(a, b)  == a[1] * b[2] <= b[1] * a[2]
RatEQ(a, b)  == a[1] * b[2] = b[1] * a[2]

RECURSIVE GCD(_, _)
GCD(a, b) == IF b = 0 THEN a ELSE GCD(b, a % b)

Abs(x) == IF x < 0 THEN -x ELSE x

\* the same fraction in lowest terms
Reduced(a) ==
    LET g == GCD(Abs(a[1]), a[2]) IN <<a[1] \div g, a[2] \div g>>

RatAdd(a, b) ==
    LET x == Reduced(a)
        y == Reduced(b)
    IN  Reduced(<<x[1] * y[2] + y[1] * x[2], x[2] * y[2]>>)

RECURSIVE RatSum(_)
RatSum(s) == IF s = <<>> THEN <<0, 1>> ELSE RatAdd(Head(s), RatSum(Tail(s)))

RECURSIVE IntSum(_)
IntSum(s) == IF s = <<>> THEN 0 ELSE Head(s) + IntSum(Tail(s))

\* Python's optional index: None or an int
None    == <<>>
Some(i) == <<i>>

\* a box given in whole pixels
Box(x1, y1, x2, y2) == <<x1 * Scale, y1 * Scale, x2 * Scale, y2 * Scale>>

\* all sequences over S of length at most n
SeqsUpTo(S, n) == UNION {[1..k -> S] : k \in 0..n}

\* ---------------------------------------------------------------- geometry
box_area(b) == (b[3] - b[1]) * (b[4] - b[2])

intersection_area(box1, box2) ==
    LET x_left   == Max(box1[1], box2[1])
        y_top    == Max(box1[2], box2[2])
        x_right  == Min(box1[3], box2[3])
        y_bottom == Min(box1[4], box2[4])
    IN  IF x_right < x_left \/ y_bottom < y_top
        THEN 0
        ELSE (x_right - x_left) * (y_bottom - y_top)

calculate_iou(box1, box2, box1_only) ==
    LET intersection == intersection_area(box1, box2)
        union == box_area(box1)
                 + (IF ~box1_only THEN box_area(box2) - intersection ELSE 0)
    IN  IF union = 0 THEN <<0, 1>> ELSE <<intersection, union>>

\* ------------------------------------------------------------- match_boxes
\* the boxes the lists are drawn from: IoU(reference 21x1, prediction 20x1) = 20/21,
\* the 2x2 box overlaps the 21x1 box in one pixel and touches the 20x1 box, and the
\* last box has zero area
ReferenceBoxes == { Box(0, 0, 21, 1), Box(20, 0, 22, 2), Box(0, 0, 0, 0) }
PredictionBoxes == { Box(0, 0, 20, 1), Box(20, 0, 22, 2), Box(0, 0, 0, 0) }

num_actual    == Len(references)
num_predicted == Len(preds)

iou_matrix(i, j) == calculate_iou(references[i + 1], preds[j + 1], TRUE)

Entries == (0..(num_actual - 1)) \X (0..(num_predicted - 1))

\* mutant of the sort of line 32: the entries are walked in any order
NextUnsorted(e) == e \in Entries \ walked

\* np.argsort(...)[::-1] orders the entries by non-increasing IoU; the order among
\* entries of equal IoU is the sort's own, so the next entry the loop visits is any
\* unvisited entry of largest IoU.
NextSorted(e) ==
    /\ e \in Entries \ walked
    /\ \A f \in Entries \ walked : RatLE(iou_matrix(f[1], f[2]), iou_matrix(e[1], e[2]))

SnapLimit == <<19, 20>>

MatchIou(i, j) ==
    IF RatLT(SnapLimit, iou_matrix(i, j)) THEN <<1, 1>> ELSE iou_matrix(i, j)

\* mutants of the test of line 42
AcceptsActualOnly(i, j) == i \notin assigned_actual
AcceptsOverlapping(i, j) ==
    i \notin assigned_actual /\ j \notin assigned_pred /\ iou_matrix(i, j)[1] > 0

Accepts(i, j) == i \notin assigned_actual /\ j \notin assigned_pred

RECURSIVE Ascending(_)
Ascending(S) ==
    IF S = {} THEN <<>>
    ELSE LET m == CHOOSE x \in S : \A y \in S : x <= y
         IN  <<m>> \o Ascending(S \ {m})

UnassignedMatches ==
    LET unassigned_actual == (0..(num_actual - 1)) \ assigned_actual
        unassigned_pred   == (0..(num_predicted - 1)) \ assigned_pred
        ua == Ascending(unassigned_actual)
        up == Ascending(unassigned_pred)
    IN  [k \in 1..Len(ua) |-> <<Some(ua[k]), None, <<-1, 1>>>>]
        \o [k \in 1..Len(up) |-> <<None, Some(up[k]), <<0, 1>>>>]

InitMatch ==
    /\ preds \in SeqsUpTo(PredictionBoxes, MaxBoxes)
    /\ references \in SeqsUpTo(ReferenceBoxes, MaxBoxes)
    /\ pc = "walk"
    /\ walked = {}
    /\ assigned_actual = {}
    /\ assigned_pred = {}
    /\ matches = <<>>
    /\ coverage_func = "none" /\ box = <<>> /\ other_boxes = <<>>
    /\ penalize_double = FALSE
    /\ covered_pixels = {} /\ double_coverage = <<>> /\ double_coverage_penalty = 0
    /\ workers = 0 /\ work_queue = <<>> /\ running = {} /\ futures = {} /\ submitted = 0
    /\ coverages = <<>> /\ pairs = <<>> /\ correct = 0
    /\ ret = None

\* one iteration of the loop of lines 40-48
MatchWalk ==
    /\ pc = "walk"
    /\ \E e \in Entries :
        /\ NextSorted(e)
        /\ walked' = walked \cup {e}
        /\ IF Accepts(e[1], e[2])
           THEN /\ matches' = Append(matches, <<Some(e[1]), Some(e[2]), MatchIou(e[1], e[2])>>)
                /\ assigned_actual' = assigned_actual \cup {e[1]}
                /\ assigned_pred' = assigned_pred \cup {e[2]}
           ELSE UNCHANGED <<matches, assigned_actual, assigned_pred>>
    /\ UNCHANGED <<pc, preds, references, covVars, penalize_double, poolVars,
                   coverages, rankVars, ret>>

\* lines 50-55: the loop is over, the unassigned indices are appended
MatchFinish ==
    /\ pc = "walk"
    /\ walked = Entries
    /\ matches' = matches \o UnassignedMatches
    /\ pc' = "matched"
    /\ UNCHANGED <<preds, references, walked, assigned_actual, assigned_pred, covVars,
                   penalize_double, poolVars, coverages, rankVars, ret>>

\* penalized_iou_score, lines 58-60
PenalizedIouScore ==
    /\ pc = "matched"
    /\ ret' = IF Len(matches) = 0
              THEN <<"ZeroDivisionError">>
              ELSE <<"ok", <<RatSum([k \in 1..Len(matches) |-> matches[k][3]])[1],
                             RatSum([k \in 1..Len(matches) |-> matches[k][3]])[2]
                               * Len(matches)>>>>
    /\ pc' = "done"
    /\ UNCHANGED <<preds, references, matchVars, covVars, penalize_double, poolVars,
                   coverages, rankVars>>

NextMatch == MatchWalk \/ MatchFinish \/ PenalizedIouScore

SpecMatch == InitMatch /\ [][NextMatch]_vars

\* ------------------------------------------------ coverage (lines 62-133)
\* int(): truncation toward zero of a coordinate to a whole pixel
Trunc(x) == IF x >= 0 THEN x \div Scale ELSE -((-x) \div Scale)

\* mutant of line 74: the last pixel column and row are dropped
intersection_pixels_short(box1, box2) ==
    LET x_left   == Max(box1[1], box2[1])
        y_top    == Max(box1[2], box2[2])
        x_right  == Min(box1[3], box2[3])
        y_bottom == Min(box1[4], box2[4])
    IN  IF x_right < x_left \/ y_bottom < y_top
        THEN {}
        ELSE (Trunc(x_left)..(Trunc(x_right) - 2)) \X (Trunc(y_top)..(Trunc(y_bottom) - 2))

intersection_pixels(box1, box2) ==
    LET x_left   == Max(box1[1], box2[1])
        y_top    == Max(box1[2], box2[2])
        x_right  == Min(box1[3], box2[3])
        y_bottom == Min(box1[4], box2[4])
    IN  IF x_right < x_left \/ y_bottom < y_top
        THEN {}
        ELSE (Trunc(x_left)..(Trunc(x_right) - 1)) \X (Trunc(y_top)..(Trunc(y_bottom) - 1))

\* the body of the loop of lines 88-91 on the locals acc
CoverLoopBody(acc, b, other_box) ==
    LET ia == intersection_pixels(b, other_box)
    IN  [double_coverage |-> Append(acc.double_coverage, acc.covered_pixels \cap ia),
         covered_pixels  |-> acc.covered_pixels \cup ia]

RECURSIVE CoverLoop(_, _, _)
CoverLoop(acc, b, others) ==
    IF others = <<>> THEN acc
    ELSE CoverLoop(CoverLoopBody(acc, b, Head(others)), b, Tail(others))

\* lines 94-96
DoubleCoveragePenalty(dc, penalize) == IF ~penalize THEN 0 ELSE Len(dc)

\* lines 97-98; the pixel count is brought to the unit of the area
CoverageValue(b, covered, penalty) ==
    <<Max(0, Cardinality(covered) - penalty) * Scale * Scale, box_area(b)>>

calculate_coverage(b, others, penalize) ==
    IF box_area(b) = 0 THEN <<"ok", <<0, 1>>>>
    ELSE LET acc == CoverLoop([double_coverage |-> <<>>, covered_pixels |-> {}], b, others)
         IN  <<"ok", CoverageValue(b, acc.covered_pixels,
                                   DoubleCoveragePenalty(acc.double_coverage, penalize))>>

\* lines 122-131, one other box
IntersectArea(b, o) ==
    LET x_left   == Max(b[1], o[1])
        y_top    == Max(b[2], o[2])
        x_right  == Min(b[3], o[3])
        y_bottom == Min(b[4], o[4])
        widths   == Max(0, x_right - x_left)
        heights  == Max(0, y_bottom - y_top)
    IN  widths * heights

\* np.array([]) has one dimension, so other_boxes[:, 0] raises IndexError
calculate_coverage_fast(b, others, penalize) ==
    IF box_area(b) = 0 THEN <<"ok", <<0, 1>>>>
    ELSE IF others = <<>> THEN <<"IndexError">>
    ELSE LET total_intersect == IntSum([k \in 1..Len(others) |-> IntersectArea(b, others[k])])
         IN  IF total_intersect > box_area(b)
             THEN <<"ok", <<1, 1>>>>
             ELSE <<"ok", <<total_intersect, box_area(b)>>>>

Half == Scale \div 2

\* 1x2, 2x2, the right half of the 2x2 box, a box of zero area, a box with negative
\* corners, and a box (Half/Scale, Half/Scale, 1, 1) whose corners are not whole pixels
CoverageBoxes == { Box(0, 0, 1, 2), Box(0, 0, 2, 2), Box(1, 0, 2, 2), Box(1, 1, 1, 1),
                   Box(-1, -1, 1, 1), <<Half, Half, Scale, Scale>> }

InitCoverage ==
    /\ coverage_func \in {"calculate_coverage", "calculate_coverage_fast"}
    /\ box \in CoverageBoxes
    /\ other_boxes \in SeqsUpTo(CoverageBoxes, MaxBoxes)
    /\ penalize_double \in BOOLEAN
    /\ pc = "call"
    /\ covered_pixels = {} /\ double_coverage = <<>> /\ double_coverage_penalty = 0
    /\ preds = <<>> /\ references = <<>>
    /\ walked = {} /\ assigned_actual = {} /\ assigned_pred = {} /\ matches = <<>>
    /\ workers = 0 /\ work_queue = <<>> /\ running = {} /\ futures = {} /\ submitted = 0
    /\ coverages = <<>> /\ pairs = <<>> /\ correct = 0
    /\ ret = None

covFrame == <<preds, references, matchVars, coverage_func, box, other_boxes,
              penalize_double, poolVars, coverages, rankVars>>

\* lines 81-83 and 118-120: a box of zero area
CovZeroArea ==
    /\ pc = "call"
    /\ box_area(box) = 0
    /\ ret' = <<"ok", <<0, 1>>>>
    /\ pc' = "done"
    /\ UNCHANGED <<covFrame, covered_pixels, double_coverage, double_coverage_penalty>>

\* lines 86-87
CovEnter ==
    /\ pc = "call"
    /\ coverage_func = "calculate_coverage"
    /\ box_area(box) # 0
    /\ pc' = "loop"
    /\ UNCHANGED <<covFrame, covered_pixels, double_coverage, double_coverage_penalty, ret>>

\* one iteration of the loop of lines 88-91
CovLoop ==
    /\ pc = "loop"
    /\ Len(double_coverage) < Len(other_boxes)
    /\ LET acc == CoverLoopBody([double_coverage |-> double_coverage,
                                 covered_pixels |-> covered_pixels],
                                box, other_boxes[Len(double_coverage) + 1])
       IN  /\ double_coverage' = acc.double_coverage
           /\ covered_pixels' = acc.covered_pixels
    /\ UNCHANGED <<pc, covFrame, double_coverage_penalty, ret>>

\* lines 94-98
CovReturn ==
    /\ pc = "loop"
    /\ Len(double_coverage) = Len(other_boxes)
    /\ double_coverage_penalty' = DoubleCoveragePenalty(double_coverage, penalize_double)
    /\ ret' = <<"ok", CoverageValue(box, covered_pixels, double_coverage_penalty')>>
    /\ pc' = "done"
    /\ UNCHANGED <<covFrame, covered_pixels, double_coverage>>

\* calculate_coverage_fast, lines 122-133
CovFast ==
    /\ pc = "call"
    /\ coverage_func = "calculate_coverage_fast"
    /\ box_area(box) # 0
    /\ ret' = calculate_coverage_fast(box, other_boxes, penalize_double)
    /\ pc' = "done"
    /\ UNCHANGED <<covFrame, covered_pixels, double_coverage, double_coverage_penalty>>

NextCoverage == CovZeroArea \/ CovEnter \/ CovLoop \/ CovReturn \/ CovFast

SpecCoverage == InitCoverage /\ [][NextCoverage]_vars

\* ------------------------------------------- precision_recall (lines 136-168)
threshold == <<1, 2>>

\* a call of one of the two coverage functions
Call(func, b, others, penalize) ==
    IF func = "calculate_coverage"
    THEN calculate_coverage(b, others, penalize)
    ELSE calculate_coverage_fast(b, others, penalize)

\* lines 150-152
SelectCoverageFunc(penalize) ==
    IF penalize THEN "calculate_coverage" ELSE "calculate_coverage_fast"

\* line 155-156: the work item of prediction j, partial(coverage_func,
\* penalize_double=penalize_double) on (preds[j], references)
PrecisionItem(j) ==
    [batch |-> "precision", pos |-> j, func |-> coverage_func,
     box |-> preds[j + 1], others |-> references, penalize |-> penalize_double]

\* line 157: the work item of reference i, coverage_func on (references[i], preds);
\* penalize_double is not passed and takes its default, False (lines 80, 113)
ReferenceItem(i) ==
    [batch |-> "recall", pos |-> i, func |-> coverage_func,
     box |-> references[i + 1], others |-> preds, penalize |-> FALSE]

\* the n-th work item submitted, n = 0, 1, ...: executor.map of line 156 submits one
\* item per prediction, then executor.map of line 157 one per reference
WorkItem(n) ==
    IF n < Len(preds) THEN PrecisionItem(n) ELSE ReferenceItem(n - Len(preds))

NumItems == Len(preds) + Len(references)

\* mutant of Future.set_result: results are kept in the order of completion
StoreByCompletion(item, result) ==
    <<item.batch, Cardinality({f \in futures : f[1] = item.batch}), result>>

\* the result of a work item is kept in the future made for it at submission
StoreResult(item, result) == <<item.batch, item.pos, result>>

\* the results of a batch in the order of its inputs (executor.map's iterator)
BatchResults(batch, n) ==
    [k \in 1..n |-> (CHOOSE f \in futures : f[1] = batch /\ f[2] = k - 1)[3]]

\* lines 159-163: the share of results above the threshold
ShareAbove(results) ==
    <<IntSum([k \in 1..Len(results) |-> IF RatLT(threshold, results[k][2]) THEN 1 ELSE 0]),
      Len(results)>>

\* mutant of lines 137-147: the test of preds comes first
DegenerateResultPredsFirst ==
    IF Len(preds) = 0
    THEN [precision |-> <<0, 1>>, recall |-> <<0, 1>>]
    ELSE [precision |-> <<1, 1>>, recall |-> <<1, 1>>]

\* lines 137-147
DegenerateResult ==
    IF Len(references) = 0
    THEN [precision |-> <<1, 1>>, recall |-> <<1, 1>>]
    ELSE [precision |-> <<0, 1>>, recall |-> <<0, 1>>]

PRBoxes == { Box(0, 0, 1, 2), Box(0, 0, 2, 2), Box(1, 0, 2, 2) }

InitPR ==
    /\ preds \in SeqsUpTo(PRBoxes, MaxBoxes)
    /\ references \in SeqsUpTo(PRBoxes, MaxBoxes)
    /\ penalize_double \in BOOLEAN
    /\ workers \in 1..MaxWorkers
    /\ pc = "entry"
    /\ coverage_func = "none"
    /\ work_queue = <<>> /\ running = {} /\ futures = {} /\ submitted = 0
    /\ box = <<>> /\ other_boxes = <<>>
    /\ covered_pixels = {} /\ double_coverage = <<>> /\ double_coverage_penalty = 0
    /\ walked = {} /\ assigned_actual = {} /\ assigned_pred = {} /\ matches = <<>>
    /\ coverages = <<>> /\ pairs = <<>> /\ correct = 0
    /\ ret = None

prFrame == <<preds, references, penalize_double, workers, matchVars, box, other_boxes,
             covered_pixels, double_coverage, double_coverage_penalty, coverages, rankVars>>

\* lines 137-147
PRDegenerate ==
    /\ pc = "entry"
    /\ Len(references) = 0 \/ Len(preds) = 0
    /\ ret' = <<"ok", DegenerateResult>>
    /\ pc' = "done"
    /\ UNCHANGED <<prFrame, coverage_func, work_queue, running, futures, submitted>>

\* lines 150-155
PRSelect ==
    /\ pc = "entry"
    /\ Len(references) # 0 /\ Len(preds) # 0
    /\ coverage_func' = SelectCoverageFunc(penalize_double)
    /\ pc' = "map"
    /\ UNCHANGED <<prFrame, work_queue, running, futures, submitted, ret>>

\* Executor.map submits the next work item (lines 156-157)
PRSubmit ==
    /\ pc = "map"
    /\ submitted < NumItems
    /\ work_queue' = Append(work_queue, WorkItem(submitted))
    /\ submitted' = submitted + 1
    /\ UNCHANGED <<pc, prFrame, coverage_func, running, futures, ret>>

\* a worker thread of the pool takes the oldest queued item; at most `workers`
\* threads exist
WorkerTake ==
    /\ work_queue # <<>>
    /\ Cardinality(running) < workers
    /\ running' = running \cup {Head(work_queue)}
    /\ work_queue' = Tail(work_queue)
    /\ UNCHANGED <<pc, prFrame, coverage_func, futures, submitted, ret>>

\* a worker thread completes its item
WorkerFinish ==
    /\ \E item \in running :
        /\ running' = running \ {item}
        /\ futures' = futures \cup
               {StoreResult(item, Call(item.func, item.box, item.others, item.penalize))}
    /\ UNCHANGED <<pc, prFrame, coverage_func, work_queue, submitted, ret>>

\* Executor.__exit__ is shutdown(wait=True): it returns when every item is done
PoolIdle == work_queue = <<>> /\ running = {}

\* line 154, the exit of the with block
PRShutdown ==
    /\ pc = "map"
    /\ submitted = NumItems
    /\ PoolIdle
    /\ pc' = "collect"
    /\ UNCHANGED <<prFrame, coverage_func, work_queue, running, futures, submitted, ret>>

\* lines 159-168
PRReturn ==
    /\ pc = "collect"
    /\ ret' = <<"ok", [precision |-> ShareAbove(BatchResults("precision", Len(preds))),
                       recall    |-> ShareAbove(BatchResults("recall", Len(references)))]>>
    /\ pc' = "done"
    /\ UNCHANGED <<prFrame, coverage_func, work_queue, running, futures, submitted>>

NextPR == PRDegenerate \/ PRSelect \/ PRSubmit \/ WorkerTake \/ WorkerFinish
          \/ PRShutdown \/ PRReturn

SpecPR == InitPR /\ [][NextPR]_vars

\* ---------------------------------------------- mean_coverage (lines 171-186)
MeanBoxes == { Box(0, 0, 1, 2), Box(0, 0, 2, 2), Box(-1, -1, 1, 1), Box(1, 1, 1, 1),
               <<Half, Half, Scale, Scale>> }

InitMean ==
    /\ preds \in SeqsUpTo(MeanBoxes, MaxBoxes)
    /\ references \in SeqsUpTo(MeanBoxes, MaxBoxes)
    /\ pc = "references"
    /\ coverages = <<>>
    /\ coverage_func = "none" /\ box = <<>> /\ other_boxes = <<>>
    /\ penalize_double = FALSE
    /\ covered_pixels = {} /\ double_coverage = <<>> /\ double_coverage_penalty = 0
    /\ walked = {} /\ assigned_actual = {} /\ assigned_pred = {} /\ matches = <<>>
    /\ workers = 0 /\ work_queue = <<>> /\ running = {} /\ futures = {} /\ submitted = 0
    /\ pairs = <<>> /\ correct = 0
    /\ ret = None

meanFrame == <<preds, references, matchVars, covVars, penalize_double, poolVars, rankVars>>

\* one iteration of the loop of lines 174-176; penalize_double takes its default
MeanReferenceLoop ==
    /\ pc = "references"
    /\ Len(coverages) < Len(references)
    /\ coverages' = Append(coverages,
                           calculate_coverage(references[Len(coverages) + 1], preds, FALSE)[2])
    /\ UNCHANGED <<pc, meanFrame, ret>>

MeanReferencesDone ==
    /\ pc = "references"
    /\ Len(coverages) = Len(references)
    /\ pc' = "preds"
    /\ UNCHANGED <<coverages, meanFrame, ret>>

\* one iteration of the loop of lines 178-180
MeanPredLoop ==
    /\ pc = "preds"
    /\ Len(coverages) < Len(references) + Len(preds)
    /\ coverages' = Append(coverages,
                           calculate_coverage(preds[Len(coverages) - Len(references) + 1],
                                              references, FALSE)[2])
    /\ UNCHANGED <<pc, meanFrame, ret>>

\* sum(coverages) / len(coverages)
Mean(s) == Reduced(<<RatSum(s)[1], RatSum(s)[2] * Len(s)>>)

\* lines 183-186: the bare number 0, or a dict
MeanReturn ==
    /\ pc = "preds"
    /\ Len(coverages) = Len(references) + Len(preds)
    /\ ret' = IF Len(coverages) = 0
              THEN <<"number", <<0, 1>>>>
              ELSE <<"dict", [coverage |-> Mean(coverages)]>>
    /\ pc' = "done"
    /\ UNCHANGED <<coverages, meanFrame>>

NextMean == MeanReferenceLoop \/ MeanReferencesDone \/ MeanPredLoop \/ MeanReturn

SpecMean == InitMean /\ [][NextMean]_vars

\* ---------------------------------------------- rank_accuracy (lines 189-205)
\* mutant of lines 194-195: the pair of an item with itself is kept
KeepEveryPair(i, j) == TRUE

\* lines 194-195
KeepPair(i, j) == i # j

\* the inner loop of lines 193-196 for item i
PairRow(scores, i) ==
    SelectSeq([j \in 1..Len(scores) |-> <<i, j - 1, scores[i + 1] > scores[j]>>],
              LAMBDA t : KeepPair(t[1], t[2]))

RECURSIVE PairRows(_, _)
PairRows(scores, i) ==
    IF i = Len(scores) THEN <<>> ELSE PairRow(scores, i) \o PairRows(scores, i + 1)

\* x in pairs, pairs a list
InList(x, list) == \E k \in 1..Len(list) : list[k] = x

InitRank ==
    /\ \E n \in 0..MaxItems :
          /\ preds \in [1..n -> 1..MaxScore]
          /\ references \in [1..n -> 1..MaxScore]
    /\ pc = "pairs"
    /\ pairs = <<>>
    /\ correct = 0
    /\ coverages = <<>>
    /\ coverage_func = "none" /\ box = <<>> /\ other_boxes = <<>>
    /\ penalize_double = FALSE
    /\ covered_pixels = {} /\ double_coverage = <<>> /\ double_coverage_penalty = 0
    /\ walked = {} /\ assigned_actual = {} /\ assigned_pred = {} /\ matches = <<>>
    /\ workers = 0 /\ work_queue = <<>> /\ running = {} /\ futures = {} /\ submitted = 0
    /\ ret = None

rankFrame == <<preds, references, matchVars, covVars, penalize_double, poolVars, coverages>>

\* lines 191-196
RankPairs ==
    /\ pc = "pairs"
    /\ pairs' = PairRows(preds, 0)
    /\ pc' = "count"
    /\ UNCHANGED <<rankFrame, correct, ret>>

\* lines 199-203
RankCount ==
    /\ pc = "count"
    /\ correct' = Cardinality({e \in (0..(Len(references) - 1)) \X (0..(Len(references) - 1)) :
                      InList(<<e[1], e[2], references[e[1] + 1] > references[e[2] + 1]>>, pairs)})
    /\ pc' = "divide"
    /\ UNCHANGED <<rankFrame, pairs, ret>>

\* line 205
RankReturn ==
    /\ pc = "divide"
    /\ ret' = IF Len(pairs) = 0
              THEN <<"ZeroDivisionError">>
              ELSE <<"ok", <<correct, Len(pairs)>>>>
    /\ pc' = "done"
    /\ UNCHANGED <<rankFrame, pairs, correct>>

NextRank == RankPairs \/ RankCount \/ RankReturn

SpecRank == InitRank /\ [][NextRank]_vars

\* ==================================================================== claims
\* ---- match_boxes
MatchDone == pc \in {"matched", "done"}

IsPaired(m)         == m[1] # None /\ m[2] # None
IsUnmatchedRef(m)   == m[1] # None /\ m[2] = None
IsUnmatchedPred(m)  == m[1] = None /\ m[2] # None
Paired              == {k \in 1..Len(matches) : IsPaired(matches[k])}
UnmatchedRefs       == {k \in 1..Len(matches) : IsUnmatchedRef(matches[k])}
UnmatchedPreds      == {k \in 1..Len(matches) : IsUnmatchedPred(matches[k])}
PairedWith(i, j)    == \E k \in 1..Len(matches) : matches[k][1] = Some(i) /\ matches[k][2] = Some(j)

\* C1: in the result of match_boxes every reference index and every prediction
\* index is in exactly one Match; the matches are the unmatched references, the
\* unmatched predictions and the pairs, and there are at most
\* min(len(preds), len(references)) pairs.
C1_EveryIndexInOneMatch ==
    MatchDone =>
        /\ \A i \in 0..(num_actual - 1) :
              Cardinality({k \in 1..Len(matches) : matches[k][1] = Some(i)}) = 1
        /\ \A j \in 0..(num_predicted - 1) :
              Cardinality({k \in 1..Len(matches) : matches[k][2] = Some(j)}) = 1
        /\ \A k \in 1..Len(matches) :
              /\ matches[k][1] # None => matches[k][1][1] \in 0..(num_actual - 1)
              /\ matches[k][2] # None => matches[k][2][1] \in 0..(num_predicted - 1)
        /\ Len(matches) = Cardinality(UnmatchedRefs)
                          + Cardinality(UnmatchedPreds)
                          + Cardinality(Paired)
        /\ Cardinality(Paired) <= Min(num_predicted, num_actual)

C1_Witness ==
    /\ MatchDone
    /\ num_actual = 2 /\ num_predicted = 1
    /\ Cardinality(Paired) = 1
    /\ Cardinality(UnmatchedRefs) = 1

C1_WitnessEmpty == MatchDone /\ num_actual = 0 /\ num_predicted = 0 /\ matches = <<>>

\* C9: match_boxes accepts pairs in non-increasing order of the raw IoU
\* (intersection / reference area); for a reference i and a prediction j that are
\* not paired with each other, i is paired with a prediction at least as good or j
\* is paired with a reference at least as good; a pair reports its raw IoU, or
\* exactly 1.0 when the raw IoU is above 0.95.
C9_GreedyByIou ==
    MatchDone =>
        /\ \A a, b \in Paired :
              a < b => RatLE(iou_matrix(matches[b][1][1], matches[b][2][1]),
                             iou_matrix(matches[a][1][1], matches[a][2][1]))
        /\ \A e \in Entries :
              ~PairedWith(e[1], e[2]) =>
                 \/ \E j2 \in 0..(num_predicted - 1) :
                       /\ PairedWith(e[1], j2)
                       /\ RatLE(iou_matrix(e[1], e[2]), iou_matrix(e[1], j2))
                 \/ \E i2 \in 0..(num_actual - 1) :
                       /\ PairedWith(i2, e[2])
                       /\ RatLE(iou_matrix(e[1], e[2]), iou_matrix(i2, e[2]))
        /\ \A k \in Paired :
              LET raw == iou_matrix(matches[k][1][1], matches[k][2][1])
              IN  IF raw[1] * 100 > 95 * raw[2]
                  THEN matches[k][3] = <<1, 1>>
                  ELSE matches[k][3] = raw

C9_Witness ==
    /\ MatchDone
    /\ num_actual = 2 /\ num_predicted = 2
    /\ \E k \in Paired :
          LET raw == iou_matrix(matches[k][1][1], matches[k][2][1])
          IN  raw[1] < raw[2] /\ matches[k][3] = <<1, 1>>
    /\ \E e \in Entries : ~PairedWith(e[1], e[2]) /\ iou_matrix(e[1], e[2])[1] > 0

\* C10: match_boxes always makes exactly min(len(preds), len(references)) pairs, so
\* no result holds both an unmatched reference and an unmatched prediction; a
\* reference that overlaps no prediction is paired at IoU 0.0 when there are at
\* least as many predictions as references; penalized_iou_score sums a -1.0 term
\* only when there are more references than predictions.
C10_PairsAreMin ==
    MatchDone =>
        /\ Cardinality(Paired) = Min(num_predicted, num_actual)
        /\ UnmatchedRefs = {} \/ UnmatchedPreds = {}
        /\ \A i \in 0..(num_actual - 1) :
              (/\ num_predicted >= num_actual
               /\ \A j \in 0..(num_predicted - 1) : iou_matrix(i, j)[1] = 0)
              => \E k \in Paired :
                    matches[k][1] = Some(i) /\ RatEQ(matches[k][3], <<0, 1>>)
        /\ (\E k \in 1..Len(matches) : RatEQ(matches[k][3], <<-1, 1>>))
              => num_actual > num_predicted

C10_Witness ==
    /\ pc = "done"
    /\ num_actual = 2 /\ num_predicted = 2
    /\ \E i \in 0..1 :
          /\ \A j \in 0..1 : iou_matrix(i, j)[1] = 0
          /\ box_area(references[i + 1]) > 0
          /\ \E k \in Paired :
                matches[k][1] = Some(i) /\ RatEQ(matches[k][3], <<0, 1>>)
    /\ \E i \in 0..1, j \in 0..1 : iou_matrix(i, j)[1] > 0
    /\ ret[1] = "ok"

\* ---- coverage
\* C2: for a target box with x1 <= x2 and y1 <= y2, whole-pixel corners or not,
\* calculate_coverage and calculate_coverage_fast return a value in [0, 1], and a
\* target box of zero area returns 0.
C2_CoverageInUnitInterval ==
    (pc = "done" /\ ret[1] = "ok") =>
        /\ RatLE(<<0, 1>>, ret[2])
        /\ RatLE(ret[2], <<1, 1>>)
        /\ box_area(box) = 0 => RatEQ(ret[2], <<0, 1>>)

\* C3: with penalize_double the penalty is the number of other boxes whose
\* intersection pixels meet the pixels covered by earlier boxes; a box that meets
\* no covered pixel adds nothing; the covered count after the penalty is not
\* negative.
C3_PenaltyCountsOverlappingBoxes ==
    (pc = "done" /\ coverage_func = "calculate_coverage" /\ penalize_double
       /\ box_area(box) # 0) =>
        /\ double_coverage_penalty
             = Cardinality({k \in 1..Len(double_coverage) : double_coverage[k] # {}})
        /\ ret[2][1] >= 0
        /\ ret[2][1] = (Cardinality(covered_pixels)
                          - Cardinality({k \in 1..Len(double_coverage) : double_coverage[k] # {}}))
                       * Scale * Scale
           \/ ret[2][1] = 0

\* ---- precision_recall
One  == <<1, 1>>
Zero == <<0, 1>>

\* C4: precision_recall returns precision 1 and recall 1 when references is empty,
\* whatever preds is, and precision 0 and recall 0 when references is not empty and
\* preds is; in both cases no work item is submitted to the pool.
C4_DegenerateRulesFirst ==
    /\ (Len(references) = 0 \/ Len(preds) = 0) =>
          submitted = 0 /\ work_queue = <<>> /\ running = {} /\ futures = {}
    /\ (pc = "done" /\ Len(references) = 0) =>
          ret = <<"ok", [precision |-> One, recall |-> One]>>
    /\ (pc = "done" /\ Len(references) # 0 /\ Len(preds) = 0) =>
          ret = <<"ok", [precision |-> Zero, recall |-> Zero]>>

C4_Witness ==
    /\ pc = "done"
    /\ Len(references) = 0 /\ Len(preds) = 0
    /\ ret = <<"ok", [precision |-> One, recall |-> One]>>

\* the evaluation of the two batches one call after the other, in input order
SequentialPrecisionIou ==
    [k \in 1..Len(preds) |->
        Call(SelectCoverageFunc(penalize_double), preds[k], references, penalize_double)]
SequentialReferenceIou ==
    [k \in 1..Len(references) |->
        Call(SelectCoverageFunc(penalize_double), references[k], preds, FALSE)]

\* C5: for non-empty preds and references precision_recall submits one work item
\* per prediction and one per reference and goes on only when all of them are
\* complete; whatever the number of workers and the order in which the items run and
\* complete, each result is collected at the position of its input and the precision
\* and recall returned are those of the sequential evaluation.
C5_PoolOrderIrrelevant ==
    /\ (pc \in {"collect", "done"} /\ Len(preds) # 0 /\ Len(references) # 0) =>
          /\ submitted = Len(preds) + Len(references)
          /\ work_queue = <<>> /\ running = {}
          /\ \A j \in 0..(Len(preds) - 1) :
                Cardinality({f \in futures : f[1] = "precision" /\ f[2] = j}) = 1
          /\ \A i \in 0..(Len(references) - 1) :
                Cardinality({f \in futures : f[1] = "recall" /\ f[2] = i}) = 1
          /\ Cardinality(futures) = Len(preds) + Len(references)
          /\ BatchResults("precision", Len(preds)) = SequentialPrecisionIou
          /\ BatchResults("recall", Len(references)) = SequentialReferenceIou
    /\ (pc = "done" /\ Len(preds) # 0 /\ Len(references) # 0) =>
          ret = <<"ok", [precision |-> ShareAbove(SequentialPrecisionIou),
                         recall    |-> ShareAbove(SequentialReferenceIou)]>>

C5_Witness ==
    /\ pc = "done"
    /\ workers >= 2
    /\ Len(preds) = 2 /\ Len(references) = 2
    /\ SequentialPrecisionIou[1] # SequentialPrecisionIou[2]
    /\ ret[2].precision = <<1, 2>>

\* C8: with non-empty inputs the per-prediction coverages and the per-reference
\* coverages are computed by the same coverage function with the same
\* penalize_double, the one given to precision_recall.
C8_BothBatchesSamePenalty ==
    (pc = "done" /\ Len(preds) # 0 /\ Len(references) # 0) =>
        /\ BatchResults("precision", Len(preds))
             = [k \in 1..Len(preds) |->
                   Call(coverage_func, preds[k], references, penalize_double)]
        /\ BatchResults("recall", Len(references))
             = [k \in 1..Len(references) |->
                   Call(coverage_func, references[k], preds, penalize_double)]

\* ---- mean_coverage
WholePixels(b) == \A c \in 1..4 : b[c] % Scale = 0

\* C6 as stated: for every box list L, mean_coverage(L, L) yields a coverage of 1.0.
C6_IdenticalListsCoverOne ==
    (pc = "done" /\ preds = references) =>
        ret[1] = "dict" /\ RatEQ(ret[2].coverage, One)

\* C6 as amended: for every non-empty list L of boxes of non-zero area whose corners
\* are whole pixels, mean_coverage(L, L) yields a coverage of 1.0; for an empty L it
\* returns the number 0.
C6_IdenticalWholePixelListsCoverOne ==
    (pc = "done" /\ preds = references) =>
        /\ Len(preds) = 0 => ret = <<"number", Zero>>
        /\ (/\ Len(preds) > 0
            /\ \A k \in 1..Len(preds) : WholePixels(preds[k]) /\ box_area(preds[k]) # 0)
           => ret[1] = "dict" /\ RatEQ(ret[2].coverage, One)

C6_Witness ==
    /\ pc = "done"
    /\ preds = references
    /\ Len(preds) = 2
    /\ preds[1] # preds[2]
    /\ \A k \in 1..2 : WholePixels(preds[k]) /\ box_area(preds[k]) # 0
    /\ ret[1] = "dict" /\ RatEQ(ret[2].coverage, One)

\* ---- rank_accuracy
Agreeing ==
    {e \in (1..Len(preds)) \X (1..Len(preds)) :
        /\ e[1] # e[2]
        /\ (preds[e[1]] > preds[e[2]]) = (references[e[1]] > references[e[2]])}

\* C7: for aligned score lists of length n >= 2 rank_accuracy returns the number of
\* ordered pairs (i, j), i # j, on which preds[i] > preds[j] and
\* references[i] > references[j] agree, divided by n * (n - 1); the result is in
\* [0, 1] and is 1.0 when preds and references are identical; with fewer than 2
\* items the call fails with a division by zero.
C7_RankAccuracyIsPairAgreement ==
    pc = "done" =>
        IF Len(preds) >= 2
        THEN /\ ret = <<"ok", <<Cardinality(Agreeing), Len(preds) * (Len(preds) - 1)>>>>
             /\ RatLE(Zero, ret[2]) /\ RatLE(ret[2], One)
             /\ preds = references => RatEQ(ret[2], One)
        ELSE ret = <<"ZeroDivisionError">>

C7_Witness ==
    /\ pc = "done"
    /\ Len(preds) = 3
    /\ preds[1] = preds[2]
    /\ RatLT(Zero, ret[2]) /\ RatLT(ret[2], One)

====
